---------------------------- MODULE Spec2Model ----------------------------
(***************************************************************************)
(* A model of the CopterControl attitude estimator                         *)
(* (flight/Modules/Attitude/attitude.c): the periodic AttitudeTask, the    *)
(* sensor conditioning updateSensorsCC3D, the complementary filter         *)
(* updateAttitude and the settings callback settingsUpdatedCb.             *)
(*                                                                         *)
(* C floats are modelled as fixed-point numbers with six decimals (the     *)
(* integer n stands for n / FX), rounded to nearest after every            *)
(* multiplication, division and square root, together with the IEEE        *)
(* values NaN, +Inf and -Inf and one finite magnitude far beyond the       *)
(* fixed-point range (Huge, 1e35f).                                        *)
(***************************************************************************)
EXTENDS Integers, Sequences, FiniteSets, TLC

-----------------------------------------------------------------------------
(* Floating point                                                          *)

\* the base of the two-digit split used by FMul
FB == 1000
\* one unit (1.0f)
FX == FB * FB
\* 1e35f and -1e35f: finite; a float of the fixed-point range added to it is
\* absorbed, its product with one (other than 0) is as large to within
\* 1e-6 .. 1e4, and its square is beyond FLT_MAX
Huge == 2000000000 + 1
NHuge == -Huge
\* IEEE special values
PInf == 2000000000 + 2
NInf == -PInf
NaN == 2000000000 + 3

Abs(x) == IF x < 0 THEN -x ELSE x

Sgn(x) == IF x < 0 THEN -1 ELSE 1

IsNaN(x) == x = NaN

IsInf(x) == x = PInf \/ x = NInf

IsHuge(x) == x = Huge \/ x = NHuge

\* a result x the model's numbers cannot hold: evaluation stops
Unrepresented(x) == CHOOSE y \in {} : y = x

\* a result of the fixed-point range
Rng(x) == IF x > NHuge /\ x < Huge THEN x ELSE Unrepresented(x)

\* a float made of an integer
F(n) == n * FX

\* -a
FNeg(a) == IF IsNaN(a) THEN NaN ELSE -a

\* a + b
FAdd(a, b) ==
    IF IsNaN(a) \/ IsNaN(b) THEN NaN
    ELSE IF IsInf(a) THEN (IF IsInf(b) /\ b # a THEN NaN ELSE a)
    ELSE IF IsInf(b) THEN b
    ELSE IF IsHuge(a) THEN (IF IsHuge(b) /\ b # a THEN Unrepresented(a) ELSE a)
    ELSE IF IsHuge(b) THEN b
    ELSE Rng(a + b)

\* a - b
FSub(a, b) == FAdd(a, FNeg(b))

\* |a| * |b| / FX for finite a, b, rounded to nearest, without an
\* intermediate product beyond 32 bits
MulMag(a, b) ==
    LET ah == a \div FB
        al == a % FB
        bh == b \div FB
        bl == b % FB
        m == ah * bl + al * bh
        lo == (m % FB) * FB + al * bl
    IN ah * bh + (m \div FB) + ((lo + FX \div 2) \div FX)

\* a * b
FMul(a, b) ==
    IF IsNaN(a) \/ IsNaN(b) THEN NaN
    ELSE IF IsInf(a) \/ IsInf(b)
         THEN (IF a = 0 \/ b = 0 THEN NaN
               ELSE IF Sgn(a) * Sgn(b) > 0 THEN PInf ELSE NInf)
    ELSE IF IsHuge(a) \/ IsHuge(b)
         THEN (IF a = 0 \/ b = 0 THEN 0
               ELSE IF IsHuge(a) /\ IsHuge(b)
                    THEN (IF Sgn(a) * Sgn(b) > 0 THEN PInf ELSE NInf)
               ELSE IF Sgn(a) * Sgn(b) > 0 THEN Huge ELSE NHuge)
    ELSE Rng(Sgn(a) * Sgn(b) * MulMag(Abs(a), Abs(b)))

\* the n decimals of r / b for 0 <= r < b, the last one rounded to nearest
RECURSIVE DivFrac(_, _, _)
DivFrac(r, b, n) ==
    IF n = 0 THEN (IF 2 * r >= b THEN 1 ELSE 0)
    ELSE LET t == r * 10
             p == IF n = 1 THEN 1 ELSE IF n = 2 THEN 10 ELSE IF n = 3 THEN 100
                  ELSE IF n = 4 THEN 1000 ELSE IF n = 5 THEN 10000 ELSE 100000
         IN (t \div b) * p + DivFrac(t % b, b, n - 1)

\* |a| * FX / |b| for finite a and b # 0, rounded to nearest
DivMag(a, b) == (a \div b) * FX + DivFrac(a % b, b, 6)

\* a / b
FDiv(a, b) ==
    IF IsNaN(a) \/ IsNaN(b) THEN NaN
    ELSE IF IsInf(a) THEN (IF IsInf(b) THEN NaN
                           ELSE IF Sgn(a) * Sgn(b) > 0 THEN PInf ELSE NInf)
    ELSE IF IsInf(b) THEN 0
    ELSE IF b = 0 THEN (IF a = 0 THEN NaN ELSE IF a > 0 THEN PInf ELSE NInf)
    ELSE IF IsHuge(b) THEN (IF IsHuge(a) THEN Unrepresented(a) ELSE 0)
    ELSE IF IsHuge(a)
         THEN (IF Abs(b) < FX THEN Unrepresented(a)
               ELSE IF Sgn(a) * Sgn(b) > 0 THEN Huge ELSE NHuge)
    ELSE Rng(Sgn(a) * Sgn(b) * DivMag(Abs(a), Abs(b)))

\* Newton's iteration for the square root of a finite a > 0, from above
RECURSIVE SqrtIter(_, _)
SqrtIter(a, y) ==
    LET z == (y + DivMag(a, y)) \div 2
    IN IF z >= y THEN y ELSE SqrtIter(a, z)

\* sqrtf(a)
FSqrt(a) ==
    IF IsNaN(a) THEN NaN
    ELSE IF a = PInf THEN PInf
    ELSE IF a < 0 THEN NaN
    ELSE IF a = Huge THEN Unrepresented(a)
    ELSE IF a = 0 THEN 0
    ELSE SqrtIter(a, IF a > FX THEN a ELSE FX)

\* a < b: false when either is NaN
FLt(a, b) == ~IsNaN(a) /\ ~IsNaN(b) /\ a < b

\* fabs(a)
FAbs(a) == IF IsNaN(a) THEN NaN ELSE Abs(a)

\* a != a: true of NaN alone
FNe(a, b) == IsNaN(a) \/ IsNaN(b) \/ a # b

-----------------------------------------------------------------------------
(* Constants of attitude.c                                                 *)

\* #define GRAV 9.81f
GRAV == 9810000
\* #define ACCEL_SCALE (GRAV * 0.004f)
ACCEL_SCALE == 39240
\* GRAV / ACCEL_SCALE as the C float division gives it (250.0f)
GRAV_OVER_SCALE == FDiv(GRAV, ACCEL_SCALE)
\* M_PI
M_PI == 3141593
\* a magnitude below which nothing lies: updateAttitude never gives up
NoMagnitude == FX - FX
\* the magnitude below which updateAttitude gives up (1.0e-3f, 1e-3)
SMALL_MAG == 1000
\* the step assumed when the tick count did not advance (0.001 s)
DT_MIN == 1000
\* the forced gains of the first seconds and of arming
KP_INIT == 1000000
KI_INIT == 900000
YAW_BIAS_RATE_INIT == 230000
\* the warm-up window in ticks: 1000 < tick < 7000
WARMUP_FROM == 1000
WARMUP_TO == 7000
MAX_TRIM_FLIGHT_SAMPLES == 65535

\* cheby2(4,60,10/200), in units of 1 / FX
b0 == 988
b1 == -3762
b2 == 5554
b3 == -3762
b4 == 988
a1 == -3878130
a2 == 5641763
a3 == -3648876
a4 == 885248

Axes == 0..2

Vec3(vx, vy, vz) == (0 :> vx @@ 1 :> vy @@ 2 :> vz)

Quat(w, vx, vy, vz) == (0 :> w @@ 1 :> vx @@ 2 :> vy @@ 3 :> vz)

ZeroVec == Vec3(0, 0, 0)

\* a vector of integers as floats
FloatVec(v) == Vec3(F(v[0]), F(v[1]), F(v[2]))

\* u + v, u - v, u * k and u / k, component by component
VAdd(u, v) == Vec3(FAdd(u[0], v[0]), FAdd(u[1], v[1]), FAdd(u[2], v[2]))

VSub(u, v) == Vec3(FSub(u[0], v[0]), FSub(u[1], v[1]), FSub(u[2], v[2]))

VScale(u, k) == Vec3(FMul(u[0], k), FMul(u[1], k), FMul(u[2], k))

VDiv(u, k) == Vec3(FDiv(u[0], k), FDiv(u[1], k), FDiv(u[2], k))

QAdd(p, r) == Quat(FAdd(p[0], r[0]), FAdd(p[1], r[1]), FAdd(p[2], r[2]), FAdd(p[3], r[3]))

QDiv(p, k) == Quat(FDiv(p[0], k), FDiv(p[1], k), FDiv(p[2], k), FDiv(p[3], k))

IdentityQuat == Quat(FX, 0, 0, 0)

\* a zero-initialised fourthOrderData
ZeroFilter ==
    [inputTm1 |-> 0, inputTm2 |-> 0, inputTm3 |-> 0, inputTm4 |-> 0,
     outputTm1 |-> 0, outputTm2 |-> 0, outputTm3 |-> 0, outputTm4 |-> 0]

ZeroFilters == Vec3(ZeroFilter, ZeroFilter, ZeroFilter)

\* the sum of a sequence of floats, left to right as C evaluates it
RECURSIVE FSum(_)
FSum(s) == IF Len(s) = 1 THEN s[1] ELSE FAdd(FSum(SubSeq(s, 1, Len(s) - 1)), s[Len(s)])

\* computeFourthOrder: the output sample
FourthOrderOutput(currentInput, fp) ==
    FSub(FSub(FSub(FSub(
        FSum(<<FMul(b0, currentInput), FMul(b1, fp.inputTm1), FMul(b2, fp.inputTm2),
               FMul(b3, fp.inputTm3), FMul(b4, fp.inputTm4)>>),
        FMul(a1, fp.outputTm1)), FMul(a2, fp.outputTm2)),
        FMul(a3, fp.outputTm3)), FMul(a4, fp.outputTm4))

\* computeFourthOrder: the filter state after the call
FourthOrderShift(currentInput, fp) ==
    [inputTm4 |-> fp.inputTm3, inputTm3 |-> fp.inputTm2, inputTm2 |-> fp.inputTm1,
     inputTm1 |-> currentInput,
     outputTm4 |-> fp.outputTm3, outputTm3 |-> fp.outputTm2, outputTm2 |-> fp.outputTm1,
     outputTm1 |-> FourthOrderOutput(currentInput, fp)]

\* apply_accel_filter: the filtered vector
FilteredVec(enabled, raw, fps) ==
    IF enabled
    THEN Vec3(FourthOrderOutput(raw[0], fps[0]), FourthOrderOutput(raw[1], fps[1]),
              FourthOrderOutput(raw[2], fps[2]))
    ELSE Vec3(raw[0], raw[1], raw[2])

\* a filter whose histories take the input whether it is enabled or not
FilteredStateAlways(enabled, raw, fps) ==
    Vec3(FourthOrderShift(raw[0], fps[0]), FourthOrderShift(raw[1], fps[1]),
         FourthOrderShift(raw[2], fps[2]))

\* apply_accel_filter: the three filter states after the call
FilteredState(enabled, raw, fps) ==
    IF enabled
    THEN Vec3(FourthOrderShift(raw[0], fps[0]), FourthOrderShift(raw[1], fps[1]),
              FourthOrderShift(raw[2], fps[2]))
    ELSE fps

\* CrossProduct(v1, v2, result)
CrossProduct(v1, v2) ==
    Vec3(FSub(FMul(v1[1], v2[2]), FMul(v2[1], v1[2])),
         FSub(FMul(v2[0], v1[2]), FMul(v1[0], v2[2])),
         FSub(FMul(v1[0], v2[1]), FMul(v2[0], v1[1])))

\* the integer square root of n >= 1, rounded to nearest
RECURSIVE ISqrtIter(_, _)
ISqrtIter(n, y) ==
    LET z == (y + n \div y) \div 2
    IN IF z >= y THEN (IF n - y * y > y THEN y + 1 ELSE y) ELSE ISqrtIter(n, z)

\* sqrtf of the sum of the squares of the components of s. A float keeps
\* its relative precision near zero: the squares of components below
\* 0.02 are summed exactly, not rounded to six decimals.
Norm(s) ==
    IF \A i \in 1..Len(s) : Abs(s[i]) <= 20000
    THEN LET n == FSum([i \in 1..Len(s) |-> s[i] * s[i]])
         IN IF n = 0 THEN 0 ELSE ISqrtIter(n, n)
    ELSE FSqrt(FSum([i \in 1..Len(s) |-> FMul(s[i], s[i])]))

\* sqrtf(v[0]*v[0] + v[1]*v[1] + v[2]*v[2])
VecMag(v) == Norm(<<v[0], v[1], v[2]>>)

\* sqrtf(q[0]*q[0] + q[1]*q[1] + q[2]*q[2] + q[3]*q[3])
QuatMag(qq) == Norm(<<qq[0], qq[1], qq[2], qq[3]>>)

\* gravity rotated to the body frame
Grot(qq) ==
    Vec3(FNeg(FMul(F(2), FSub(FMul(qq[1], qq[3]), FMul(qq[0], qq[2])))),
         FNeg(FMul(F(2), FAdd(FMul(qq[2], qq[3]), FMul(qq[0], qq[1])))),
         FNeg(FAdd(FSub(FSub(FMul(qq[0], qq[0]), FMul(qq[1], qq[1])),
                        FMul(qq[2], qq[2])), FMul(qq[3], qq[3]))))

\* portTICK_RATE_MS of the 1 kHz tick
portTICK_RATE_MS == 1

\* portMAX_DELAY, the largest portTickType: the tick counter is followed
\* with a width of 16 bits (0xffff, as with configUSE_16_BIT_TICKS); with
\* 32 bits the arithmetic is the same modulo 2^32
portMAX_DELAY == 65535

\* portMAX_DELAY & x, for x the difference of two tick counts
MaskTicks(x) == x % (portMAX_DELAY + 1)

\* a time step that takes the difference of the tick counts as it is
DeltaTSigned(thisSysTime, lastSysTime) ==
    IF thisSysTime = lastSysTime THEN DT_MIN
    ELSE ((thisSysTime - lastSysTime) \div portTICK_RATE_MS) * (FX \div 1000)

\* the time step in seconds between two tick counts (a tick is 1 / 1000 s)
DeltaT(thisSysTime, lastSysTime) ==
    IF thisSysTime = lastSysTime THEN DT_MIN
    ELSE (MaskTicks(thisSysTime - lastSysTime) \div portTICK_RATE_MS) * (FX \div 1000)

\* x * dT * M_PI / 180 / 2
HalfRad(v, dT) == FDiv(FDiv(FMul(FMul(v, dT), M_PI), F(180)), F(2))

\* the time derivative of the quaternion, times dT
Qdot(qq, g, dT) ==
    Quat(HalfRad(FSub(FSub(FMul(FNeg(qq[1]), g[0]), FMul(qq[2], g[1])), FMul(qq[3], g[2])), dT),
         HalfRad(FAdd(FSub(FMul(qq[0], g[0]), FMul(qq[3], g[1])), FMul(qq[2], g[2])), dT),
         HalfRad(FSub(FAdd(FMul(qq[3], g[0]), FMul(qq[0], g[1])), FMul(qq[1], g[2])), dT),
         HalfRad(FAdd(FAdd(FMul(FNeg(qq[2]), g[0]), FMul(qq[1], g[1])), FMul(qq[0], g[2])), dT))

\* the sign made canonical: if (q[0] < 0) q = -q
Canonical(qq) ==
    IF FLt(qq[0], 0) THEN Quat(FNeg(qq[0]), FNeg(qq[1]), FNeg(qq[2]), FNeg(qq[3])) ELSE qq

\* q / qmag, and the identity when qmag is short or NaN
Renormalize(qq) ==
    LET qmag == QuatMag(qq)
    IN IF FLt(FAbs(qmag), SMALL_MAG) \/ FNe(qmag, qmag) THEN IdentityQuat
       ELSE QDiv(qq, qmag)

\* updateAttitude from the call to its return: the values it leaves in
\* q, gyro_correct_int, the filters and lastSysTime, and how it returned
UpdateAttitude(acc, gyr, st, thisSysTime) ==
    LET dT == DeltaT(thisSysTime, st.lastSysTime)
        accels_filtered == FilteredVec(st.accel_filter_enabled, acc, st.filterParams_acc)
        facc == FilteredState(st.accel_filter_enabled, acc, st.filterParams_acc)
        grot == Grot(st.q)
        grot_filtered == FilteredVec(st.accel_filter_enabled, grot, st.filterParams_grot)
        fgrot == FilteredState(st.accel_filter_enabled, grot, st.filterParams_grot)
        cross == CrossProduct(accels_filtered, grot_filtered)
        accel_mag == VecMag(accels_filtered)
        grot_mag == IF st.accel_filter_enabled THEN VecMag(grot_filtered) ELSE FX
        den == FMul(accel_mag, grot_mag)
        accel_err == VDiv(cross, den)
        gci == Vec3(FAdd(st.gyro_correct_int[0], FMul(accel_err[0], st.accelKi)),
                    FAdd(st.gyro_correct_int[1], FMul(accel_err[1], st.accelKi)),
                    st.gyro_correct_int[2])
        gyros == VAdd(gyr, VDiv(VScale(accel_err, st.accelKp), dT))
        qstep == Canonical(QAdd(st.q, Qdot(st.q, gyros, dT)))
        after(qq, gg, gy, how) ==
            [q |-> qq, gyro_correct_int |-> gg, gyros |-> gy, filterParams_acc |-> facc,
             filterParams_grot |-> fgrot, lastSysTime |-> thisSysTime, dT |-> dT,
             exit |-> how]
    IN IF FLt(accel_mag, SMALL_MAG) THEN after(st.q, st.gyro_correct_int, gyr, "accel_mag")
       ELSE IF FLt(grot_mag, SMALL_MAG) THEN after(st.q, st.gyro_correct_int, gyr, "grot_mag")
       ELSE after(Renormalize(qstep), gci, gyros, "done")

-----------------------------------------------------------------------------
(* Collaborators: the sensor driver, the settings object, the board        *)

\* PIOS_MPU6050_GetScale(): degrees per second per count
PIOS_MPU6050_GetScale == 50000
\* PIOS_MPU6050_GetAccelScale(): m/s^2 per count (GRAV / 2000)
PIOS_MPU6050_GetAccelScale == 4905

\* rot_mult(R, vec, vec_out)
RotRow(RR, vec, i) ==
    FSum(<<FMul(RR[i][0], vec[0]), FMul(RR[i][1], vec[1]), FMul(RR[i][2], vec[2])>>)

rot_mult(RR, vec) == Vec3(RotRow(RR, vec, 0), RotRow(RR, vec, 1), RotRow(RR, vec, 2))

Diag(d0, d1, d2) == Vec3(Vec3(d0, 0, 0), Vec3(0, d1, 0), Vec3(0, 0, d2))

ZeroMatrix == Diag(0, 0, 0)

\* Quaternion2R(RPY2Quaternion(rpy)) for the board rotations of the model:
\* none, and the board mounted upside down (roll 180)
BoardRotationMatrix(rpy) ==
    IF rpy[0] = 180 /\ rpy[1] = 0 /\ rpy[2] = 0 THEN Diag(FX, -FX, -FX)
    ELSE Diag(FX, FX, FX)

\* the integer a float converts to (C truncates toward zero)
ToInt(a) == Sgn(a) * (Abs(a) \div FX)

\* the AttitudeSettings object as shipped
DefaultSettings ==
    [AccelKp |-> 50000, AccelKi |-> 100, YawBiasRate |-> 1, GyroGain |-> 420000,
     ZeroDuringArming |-> TRUE, BiasCorrectGyro |-> TRUE,
     AccelBias |-> Vec3(0, 0, 0), GyroBias |-> Vec3(0, 0, 0),
     BoardRotation |-> Vec3(0, 0, 0), TrimFlight |-> "NORMAL"]

\* another tuning, every field of which differs
TunedSettings ==
    [AccelKp |-> 100000, AccelKi |-> 200, YawBiasRate |-> 500000, GyroGain |-> 500000,
     ZeroDuringArming |-> FALSE, BiasCorrectGyro |-> FALSE,
     AccelBias |-> Vec3(10, -20, 30), GyroBias |-> Vec3(100, 0, -50),
     BoardRotation |-> Vec3(180, 0, 0), TrimFlight |-> "NORMAL"]

\* what the ground station may write
SettingsSpace == {DefaultSettings, TunedSettings}

TrimCommands == {"START", "LOAD"}

ArmedStates == {"DISARMED", "ARMING", "ARMED"}

\* samples of the MPU6050 in counts: turning while level, tilted at rest,
\* free fall
SampleSpace ==
    {[gyro_x |-> 200, gyro_y |-> 0, gyro_z |-> -100,
      accel_x |-> 0, accel_y |-> 0, accel_z |-> 2000, temperature |-> 0],
     [gyro_x |-> 0, gyro_y |-> 0, gyro_z |-> 0,
      accel_x |-> 400, accel_y |-> -200, accel_z |-> 1900, temperature |-> 0],
     [gyro_x |-> 0, gyro_y |-> 0, gyro_z |-> 0,
      accel_x |-> 0, accel_y |-> 0, accel_z |-> 0, temperature |-> 0]}

\* the samples of a board that does not turn
SamplesAtRest == {s \in SampleSpace : s.gyro_x = 0 /\ s.gyro_y = 0 /\ s.gyro_z = 0}

\* what the unwritten AccelsData and GyrosData of the task's stack may hold
GarbageSpace ==
    {[accels |-> Vec3(0, 0, 0), gyros |-> Vec3(0, 0, 0)],
     [accels |-> Vec3(NaN, NaN, NaN), gyros |-> Vec3(NaN, NaN, NaN)],
     [accels |-> Vec3(0, 0, -GRAV), gyros |-> Vec3(Huge, 0, 0)]}

\* the access modes of a flight and of the simulations
ReadOnlySpace ==
    {{}, {"Gyros", "Accels"}, {"AttitudeActual"}, {"Gyros", "Accels", "AttitudeActual"}}

\* the tick counts at which the clock is read
TickPoints == {0, 1004, 7000}

\* the first minutes of a flight: the tick count only grows
FlightClock == [t \in TickPoints |-> {u \in TickPoints : t <= u}]

\* the tick counts read around a wrap-around of the counter
WrapPoints == {0, 4, 65530}

\* a long flight: the counter wraps, any count may follow any other
WrappingClock == [t \in WrapPoints |-> WrapPoints]

\* a trim flight is flown armed
TrimArmedStates == {"ARMING", "ARMED"}

\* the number of cycles of the task that are followed, and the number of
\* writes of the ground station to AttitudeSettings
MaxCycles == 2
MaxSets == 1
\* the same of a trim flight
MaxTrimCycles == 1
MaxTrims == 2
\* the cycles followed across a wrap-around
MaxWrapCycles == 2

-----------------------------------------------------------------------------
(* State                                                                   *)

VARIABLES
    \* the statics of attitude.c
    accelKi, accelKp, accel_filter_enabled, yawBiasRate, gyroGain,
    accelbias, q, R, rotate, zero_during_arming, bias_correct_gyro,
    gyro_correct_int, trim_requested, trim_accels, trim_samples,
    filterParams_acc, filterParams_grot, lastSysTime,
    \* updateAttitude's local dT, as its last invocation left it
    dT,
    \* AttitudeTask: its position, and its locals init, flightStatus (the
    \* Armed field), accels, gyros, retval
    pc, init, flightStatus, accels, gyros, retval,
    \* settingsUpdatedCb, run by the task at start ("task") and by the event
    \* dispatcher ("event"): the position of each run and its local
    \* attitudeSettings
    cbpc, attitudeSettings,
    \* the AttitudeSettings object, the queued notifications of its change,
    \* the AttitudeActual object, the attitude alarm, the last tick count
    \* read, and whether a fault has stopped the processor
    settings, pending, attitudeActual, alarm, tick, halted,
    \* the objects whose metadata says read-only (set by the ground station
    \* for simulation)
    readOnly,
    \* history: the branch the mode scheduler took in the current cycle, how
    \* the fusion of the cycle ended, the objects the cycle published, the
    \* successful reads since the last Start and their accels, the last Load
    \* processed, the cycles begun and the writes of the ground station
    branch, fusion, published, trimFed, lastLoad, cycles, nSets

VARIABLES
    \* the statics of ahrs_comms.c
    BaroAltitudeIsUpdatedFlag, PositionActualIsUpdatedFlag, HomeLocationIsUpdatedFlag,
    AHRSKnowsHome,
    attitude_errors, attituderaw_errors, position_errors, home_errors, altitude_errors,
    \* ahrscommsTask: the call it is in, and its locals result and req
    apc, result, req,
    \* the objects BaroAltitude, PositionActual, HomeLocation (Be), AttitudeRaw
    \* and AhrsStatus, the AHRSCOMMS alarm and LED2
    baroAltitude, positionActual, homeLocation, attitudeRaw, ahrsStatus, ahrsAlarm, led2,
    \* the AHRS: the altitude, position and magnetic north it has received
    ahrs,
    \* history: the objects updated since boot, the number of their updates
    \* and the number of failed requests
    updated, nUpdates, nFailures

ahrsFlags ==
    <<BaroAltitudeIsUpdatedFlag, PositionActualIsUpdatedFlag, HomeLocationIsUpdatedFlag>>
ahrsErrors ==
    <<attitude_errors, attituderaw_errors, position_errors, home_errors, altitude_errors>>
ahrsTaskVars == <<apc, result, req, AHRSKnowsHome>>
ahrsObjs == <<baroAltitude, positionActual, homeLocation>>
ahrsOut == <<attitudeRaw, ahrsStatus, ahrsAlarm, led2, ahrs>>
ahrsHist == <<updated, nUpdates, nFailures>>
ahrsVars == <<ahrsFlags, ahrsErrors, ahrsTaskVars, ahrsObjs, ahrsOut, ahrsHist>>

gainVars == <<accelKi, accelKp, accel_filter_enabled, yawBiasRate, gyroGain>>
cfgVars == <<accelbias, R, rotate, zero_during_arming, bias_correct_gyro>>
estVars == <<q, gyro_correct_int, filterParams_acc, filterParams_grot, lastSysTime, dT>>
trimVars == <<trim_requested, trim_accels, trim_samples>>
taskVars == <<pc, init, flightStatus, accels, gyros, retval>>
cbVars == <<cbpc, attitudeSettings>>
objVars == <<settings, pending, attitudeActual, alarm, tick, halted, readOnly>>
histVars == <<branch, fusion, published, trimFed, lastLoad, cycles, nSets>>
vars ==
    <<gainVars, cfgVars, estVars, trimVars, taskVars, cbVars, objVars, histVars, ahrsVars>>

Contexts == {"task", "event"}

NoLoad ==
    [done |-> FALSE, fed |-> [started |-> FALSE, n |-> 0, a |-> ZeroVec, same |-> TRUE],
     samples |-> 0, before |-> ZeroVec, after |-> ZeroVec, fault |-> FALSE]

\* the values of the BaroAltitude object
BaroSpace ==
    {[Altitude |-> 100, Pressure |-> 1000, Temperature |-> 20],
     [Altitude |-> 120, Pressure |-> 990, Temperature |-> 19]}

\* the values of the PositionActual object
PositionSpace ==
    {[Latitude |-> 0, Longitude |-> 0, GeoidSeparation |-> 0, Heading |-> 0,
      Groundspeed |-> 0, Status |-> "NOFIX"],
     [Latitude |-> 47, Longitude |-> 8, GeoidSeparation |-> 48, Heading |-> 90,
      Groundspeed |-> 5, Status |-> "FIX3D"]}

\* the values of HomeLocation.Be: not set, and a field of length 5
HomeSpace == {Vec3(0, 0, 0), Vec3(F(3), 0, F(4))}

\* the quaternions and the raw data the AHRS answers with, and its serial
AhrsAttitudes == {IdentityQuat, Quat(0, FX, 0, 0)}

AhrsRaws ==
    {[mags |-> Vec3(0, 0, 0), gyros |-> Vec3(0, 0, 0), accels |-> Vec3(0, 0, 0)],
     [mags |-> Vec3(1, 2, 3), gyros |-> Vec3(4, 5, 6), accels |-> Vec3(7, 8, 9)]}

AhrsSerials == {"bcd"}

\* enum opahrs_result: OPAHRS_RESULT_OK and a failure
OpahrsResults == {"OPAHRS_RESULT_OK", "OPAHRS_RESULT_FAILED"}

\* the updates of the three objects and the failed requests that are
\* followed
MaxUpdates == 3
MaxFailures == 2

\* the error counters are uint16_t
Inc16(n) == (n + 1) % 65536

\* load_baro_altitude
load_baro_altitude ==
    [altitude |-> baroAltitude.Altitude, pressure |-> baroAltitude.Pressure,
     temperature |-> baroAltitude.Temperature]

\* load_position_actual
load_position_actual ==
    [latitude |-> positionActual.Latitude, longitude |-> positionActual.Longitude,
     altitude |-> positionActual.GeoidSeparation, heading |-> positionActual.Heading,
     groundspeed |-> positionActual.Groundspeed, status |-> positionActual.Status]

\* load_magnetic_north: Be made a unit vector, (1, 0, 0) when Be is not set
load_magnetic_north ==
    IF homeLocation[0] = 0 /\ homeLocation[1] = 0 /\ homeLocation[2] = 0
    THEN [Be |-> Vec3(F(1), 0, 0)]
    ELSE [Be |-> VDiv(homeLocation, VecMag(homeLocation))]

\* a request structure nothing was loaded into, a message never received
NoData == [none |-> TRUE]

\* the state of ahrs_comms.c when ahrscommsTask has entered its loop, set
\* the alarm and is about to call PIOS_OPAHRS_resync for the first time
AhrsInit ==
    /\ BaroAltitudeIsUpdatedFlag = FALSE /\ PositionActualIsUpdatedFlag = FALSE
    /\ HomeLocationIsUpdatedFlag = FALSE /\ AHRSKnowsHome = FALSE
    /\ attitude_errors = 0 /\ attituderaw_errors = 0 /\ position_errors = 0
    /\ home_errors = 0 /\ altitude_errors = 0
    /\ apc = "resync" /\ result = "OPAHRS_RESULT_OK" /\ req = NoData
    /\ baroAltitude = [Altitude |-> 100, Pressure |-> 1000, Temperature |-> 20]
    /\ positionActual =
           [Latitude |-> 0, Longitude |-> 0, GeoidSeparation |-> 0, Heading |-> 0,
            Groundspeed |-> 0, Status |-> "NOFIX"]
    /\ homeLocation = Vec3(0, 0, 0)
    /\ attitudeRaw = [mags |-> Vec3(0, 0, 0), gyros |-> Vec3(0, 0, 0), accels |-> Vec3(0, 0, 0)]
    /\ ahrsStatus = [SerialNumber |-> "none", CommErrors |-> <<0, 0, 0, 0, 0>>]
    /\ ahrsAlarm = "Critical" /\ led2 = "unknown"
    /\ ahrs = [altitude |-> NoData, gps |-> NoData, north |-> NoData]
    /\ updated = {} /\ nUpdates = 0 /\ nFailures = 0

\* the state when AttitudeTask has cleared the alarm and is about to force
\* the first settings update
Init ==
    /\ accelKi = 0 /\ accelKp = 0 /\ accel_filter_enabled = FALSE
    /\ yawBiasRate = 0 /\ gyroGain = 420000
    /\ accelbias = Vec3(0, 0, 0) /\ q = IdentityQuat /\ R = ZeroMatrix /\ rotate = 0
    /\ zero_during_arming = FALSE /\ bias_correct_gyro = TRUE
    /\ gyro_correct_int = ZeroVec
    /\ trim_requested = FALSE /\ trim_accels = Vec3(0, 0, 0) /\ trim_samples = 0
    /\ filterParams_acc = ZeroFilters /\ filterParams_grot = ZeroFilters
    /\ lastSysTime = 0 /\ dT = 0
    /\ pc = "boot" /\ init = 0 /\ flightStatus = "DISARMED"
    /\ accels = ZeroVec /\ gyros = ZeroVec /\ retval = 0
    /\ cbpc = [c \in Contexts |-> "idle"]
    /\ attitudeSettings = [c \in Contexts |-> DefaultSettings]
    /\ settings = DefaultSettings /\ pending = 0
    /\ attitudeActual = IdentityQuat /\ alarm = "Clear" /\ tick = 0 /\ halted = FALSE
    /\ readOnly \in ReadOnlySpace
    /\ branch = "none" /\ fusion = "none" /\ published = {}
    /\ trimFed = [started |-> FALSE, n |-> 0, a |-> ZeroVec, same |-> TRUE]
    /\ lastLoad = NoLoad /\ cycles = 0 /\ nSets = 0
    /\ AhrsInit

-----------------------------------------------------------------------------
(* settingsUpdatedCb                                                       *)

\* whether run c of the callback may take its next step
CbAt(c, at) ==
    /\ ~halted
    /\ cbpc[c] = at
    /\ IF c = "task" THEN pc = "boot" ELSE at # "idle" \/ pending > 0

\* AttitudeSettingsGet, then the gains and the two flags
CbGains(c) ==
    /\ CbAt(c, "idle")
    /\ UNCHANGED ahrsVars
    /\ attitudeSettings' = [attitudeSettings EXCEPT ![c] = settings]
    /\ accelKp' = settings.AccelKp
    /\ accelKi' = settings.AccelKi
    /\ yawBiasRate' = settings.YawBiasRate
    /\ gyroGain' = settings.GyroGain
    /\ zero_during_arming' = settings.ZeroDuringArming
    /\ bias_correct_gyro' = settings.BiasCorrectGyro
    /\ pending' = IF c = "event" THEN pending - 1 ELSE pending
    /\ cbpc' = [cbpc EXCEPT ![c] = "bias"]
    /\ UNCHANGED <<accel_filter_enabled, accelbias, R, rotate, estVars, trimVars, taskVars,
                   settings, attitudeActual, alarm, tick, halted, histVars, readOnly>>

\* the accel bias, the gyro bias and the board rotation
CbBias(c) ==
    /\ accelbias' = attitudeSettings[c].AccelBias
    /\ gyro_correct_int' = VDiv(FloatVec(attitudeSettings[c].GyroBias), F(100))
    /\ rotate' = IF attitudeSettings[c].BoardRotation = Vec3(0, 0, 0) THEN 0 ELSE 1
    /\ R' = BoardRotationMatrix(attitudeSettings[c].BoardRotation)

\* the end of a run of the callback
CbReturn(c) ==
    /\ cbpc' = [cbpc EXCEPT ![c] = "idle"]
    /\ pc' = IF c = "task" THEN "mode" ELSE pc

\* a Start that clears the sums and the count and does not arm
CbTrimStartUnarmed(c) ==
    /\ trim_accels' = Vec3(0, 0, 0)
    /\ trim_samples' = 0
    /\ trim_requested' = FALSE
    /\ trimFed' = [started |-> TRUE, n |-> 0, a |-> ZeroVec, same |-> TRUE]
    /\ CbReturn(c)
    /\ UNCHANGED <<attitudeSettings, settings, pending, halted, lastLoad>>

\* TrimFlight == START
CbTrimStart(c) ==
    /\ trim_accels' = Vec3(0, 0, 0)
    /\ trim_samples' = 0
    /\ trim_requested' = TRUE
    /\ trimFed' = [started |-> TRUE, n |-> 0, a |-> ZeroVec, same |-> TRUE]
    /\ CbReturn(c)
    /\ UNCHANGED <<attitudeSettings, settings, pending, halted, lastLoad>>

\* the AccelBias a Load computes from a quotient per axis
LoadBias(quot) ==
    Vec3(quot[0], quot[1], ToInt(FAdd(F(quot[2]), GRAV_OVER_SCALE)))

\* a / b for b # 0 (C truncates toward zero)
IntDiv(a, b) == Sgn(a) * Sgn(b) * (Abs(a) \div Abs(b))

\* trim_accels[i] / trim_samples where the division returns: a division by
\* zero gives 0 (SDIV of the Cortex-M3 with the trap off)
TrimQuotient ==
    IF trim_samples = 0 THEN Vec3(0, 0, 0)
    ELSE Vec3(IntDiv(trim_accels[0], trim_samples), IntDiv(trim_accels[1], trim_samples),
              IntDiv(trim_accels[2], trim_samples))

\* whether a division by trim_samples traps: by zero it may (the
\* divide-by-zero trap of the processor, SIGFPE on a host) or may not
DivisionTraps == IF trim_samples = 0 THEN {FALSE, TRUE} ELSE {FALSE}

\* what is remembered of a Load
Loaded(c, wrote, fault) ==
    [done |-> TRUE, fed |-> trimFed, samples |-> trim_samples,
     before |-> settings.AccelBias, after |-> wrote, fault |-> fault]

\* a Load that writes the bias back and leaves TrimFlight = LOAD in the object
CbTrimLoadAgain(c) ==
    /\ trim_requested' = FALSE
    /\ LET new == [attitudeSettings[c] EXCEPT !.AccelBias = LoadBias(TrimQuotient)]
       IN /\ attitudeSettings' = [attitudeSettings EXCEPT ![c] = new]
          /\ settings' = new
          /\ pending' = pending + 1
          /\ lastLoad' = Loaded(c, new.AccelBias, FALSE)
          /\ CbReturn(c)
    /\ UNCHANGED <<trim_accels, trim_samples, trimFed, halted>>

\* TrimFlight == LOAD: the bias and TrimFlight = NORMAL are written back to
\* the object, which notifies its listeners again. A trap in the division
\* ends in the fault handler, which never returns.
CbTrimLoad(c) ==
    /\ trim_requested' = FALSE
    /\ \E trap \in DivisionTraps :
        IF trap
        THEN /\ halted' = TRUE
             /\ lastLoad' = Loaded(c, settings.AccelBias, TRUE)
             /\ UNCHANGED <<cbpc, pc, attitudeSettings, settings, pending>>
        ELSE LET new == [attitudeSettings[c] EXCEPT !.AccelBias = LoadBias(TrimQuotient),
                                                    !.TrimFlight = "NORMAL"]
             IN /\ attitudeSettings' = [attitudeSettings EXCEPT ![c] = new]
                /\ settings' = new
                /\ pending' = pending + 1
                /\ lastLoad' = Loaded(c, new.AccelBias, FALSE)
                /\ CbReturn(c)
                /\ UNCHANGED halted
    /\ UNCHANGED <<trim_accels, trim_samples, trimFed>>

\* any other TrimFlight
CbTrimOther(c) ==
    /\ trim_requested' = FALSE
    /\ CbReturn(c)
    /\ UNCHANGED <<trim_accels, trim_samples, trimFed, attitudeSettings, settings, pending,
                   halted, lastLoad>>

\* the biases, the rotation and the trim command
CbRest(c) ==
    /\ CbAt(c, "bias")
    /\ UNCHANGED ahrsVars
    /\ CbBias(c)
    /\ IF attitudeSettings[c].TrimFlight = "START" THEN CbTrimStart(c)
       ELSE IF attitudeSettings[c].TrimFlight = "LOAD" THEN CbTrimLoad(c)
       ELSE CbTrimOther(c)
    /\ UNCHANGED <<gainVars, zero_during_arming, bias_correct_gyro, q, filterParams_acc,
                   filterParams_grot, lastSysTime, dT, init, flightStatus, accels, gyros,
                   retval,
                   attitudeActual, alarm, tick, readOnly, branch, fusion, published, cycles,
                   nSets>>

settingsUpdatedCb(c) ==
    \/ CbGains(c)
    \/ CbRest(c)

-----------------------------------------------------------------------------
(* AttitudeTask                                                            *)

\* AlarmsSet(SYSTEMALARMS_ALARM_ATTITUDE, severity)
AlarmsSet(severity) == alarm' = severity

\* a task that forgets to clear the alarm
AlarmsKept == alarm' = alarm

\* AlarmsClear(SYSTEMALARMS_ALARM_ATTITUDE)
AlarmsClear == alarm' = "Clear"

\* forced gains that leave init as it is, so that nothing is reloaded later
ForceGainsOnce ==
    /\ accelKp' = KP_INIT
    /\ accelKi' = KI_INIT
    /\ yawBiasRate' = YAW_BIAS_RATE_INIT
    /\ accel_filter_enabled' = FALSE
    /\ init' = init

\* the gains that let the accels find the gyro bias
ForceGains ==
    /\ accelKp' = KP_INIT
    /\ accelKi' = KI_INIT
    /\ yawBiasRate' = YAW_BIAS_RATE_INIT
    /\ accel_filter_enabled' = FALSE
    /\ init' = 0

\* a reload that enables the filter and fetches no rate
ReloadFilterOnly ==
    /\ accel_filter_enabled' = TRUE
    /\ init' = 1
    /\ UNCHANGED <<accelKi, accelKp, yawBiasRate>>

\* the rates reloaded from the AttitudeSettings object
Reload ==
    /\ accelKi' = settings.AccelKi
    /\ accelKp' = settings.AccelKp
    /\ yawBiasRate' = settings.YawBiasRate
    /\ accel_filter_enabled' = TRUE
    /\ init' = 1

\* the top of the loop: the gains of the cycle. FlightStatus is read, and
\* the tick count (its two reads see the same count).
TaskMode(maxCycles, armedStates, clock) ==
    /\ ~halted
    /\ UNCHANGED ahrsVars
    /\ pc = "mode"
    /\ cycles < maxCycles
    /\ \E armed \in armedStates, t \in clock[tick] :
        /\ tick' = t
        /\ flightStatus' = armed
        /\ IF t < WARMUP_TO /\ t > WARMUP_FROM
           THEN ForceGains /\ branch' = "warmup"
           ELSE IF zero_during_arming /\ armed = "ARMING"
           THEN ForceGains /\ branch' = "armzero"
           ELSE IF init = 0
           THEN Reload /\ branch' = "reload"
           ELSE /\ UNCHANGED <<accelKp, accelKi, yawBiasRate, accel_filter_enabled, init>>
                /\ branch' = "normal"
    /\ pc' = "sense"
    /\ fusion' = "none"
    /\ published' = {}
    /\ cycles' = cycles + 1
    /\ UNCHANGED <<gyroGain, cfgVars, estVars, trimVars, accels, gyros, retval, cbVars,
                   settings, pending, attitudeActual, alarm, halted, trimFed, lastLoad,
                   nSets, readOnly>>

\* the sample in degrees per second and m/s^2, with the signs of the mounting
SampleGyros(s) ==
    Vec3(FMul(F(s.gyro_x), PIOS_MPU6050_GetScale),
         FMul(F(-s.gyro_y), PIOS_MPU6050_GetScale),
         FMul(F(-s.gyro_z), PIOS_MPU6050_GetScale))

SampleAccels(s) ==
    Vec3(FMul(F(s.accel_x), PIOS_MPU6050_GetAccelScale),
         FMul(F(-s.accel_y), PIOS_MPU6050_GetAccelScale),
         FMul(F(-s.accel_z), PIOS_MPU6050_GetAccelScale))

\* a conditioning that integrates the yaw bias only while the gyros are
\* bias-corrected
ConditionedWhenCorrecting(s) ==
    LET acc == IF rotate # 0 THEN rot_mult(R, SampleAccels(s)) ELSE SampleAccels(s)
        gyr == IF rotate # 0 THEN rot_mult(R, SampleGyros(s)) ELSE SampleGyros(s)
        accelsData == VSub(acc, VScale(FloatVec(accelbias), ACCEL_SCALE))
        gyrosData == IF bias_correct_gyro THEN VAdd(gyr, gyro_correct_int) ELSE gyr
    IN [accels |-> accelsData, gyros |-> gyrosData,
        gyro_correct_int |->
            IF bias_correct_gyro
            THEN Vec3(gyro_correct_int[0], gyro_correct_int[1],
                      FAdd(gyro_correct_int[2], FMul(FNeg(gyrosData[2]), yawBiasRate)))
            ELSE gyro_correct_int]

\* a conditioning that makes the gyros of every axis average zero
ConditionedAllAxes(s) ==
    LET acc == IF rotate # 0 THEN rot_mult(R, SampleAccels(s)) ELSE SampleAccels(s)
        gyr == IF rotate # 0 THEN rot_mult(R, SampleGyros(s)) ELSE SampleGyros(s)
        accelsData == VSub(acc, VScale(FloatVec(accelbias), ACCEL_SCALE))
        gyrosData == IF bias_correct_gyro THEN VAdd(gyr, gyro_correct_int) ELSE gyr
    IN [accels |-> accelsData, gyros |-> gyrosData,
        gyro_correct_int |->
            Vec3(FAdd(gyro_correct_int[0], FMul(FNeg(gyrosData[0]), yawBiasRate)),
                 FAdd(gyro_correct_int[1], FMul(FNeg(gyrosData[1]), yawBiasRate)),
                 FAdd(gyro_correct_int[2], FMul(FNeg(gyrosData[2]), yawBiasRate)))]

\* updateSensorsCC3D from the sample received to its return: the accels and
\* gyros it publishes and the yaw bias it leaves
Conditioned(s) ==
    LET acc == IF rotate # 0 THEN rot_mult(R, SampleAccels(s)) ELSE SampleAccels(s)
        gyr == IF rotate # 0 THEN rot_mult(R, SampleGyros(s)) ELSE SampleGyros(s)
        accelsData == VSub(acc, VScale(FloatVec(accelbias), ACCEL_SCALE))
        gyrosData == IF bias_correct_gyro THEN VAdd(gyr, gyro_correct_int) ELSE gyr
    IN [accels |-> accelsData, gyros |-> gyrosData,
        gyro_correct_int |->
            Vec3(gyro_correct_int[0], gyro_correct_int[1],
                 FAdd(gyro_correct_int[2], FMul(FNeg(gyrosData[2]), yawBiasRate)))]

\* the reads since the last Start, one more
Fed(a) ==
    [started |-> trimFed.started, n |-> trimFed.n + 1,
     a |-> IF trimFed.n = 0 THEN a ELSE trimFed.a,
     same |-> trimFed.same /\ (trimFed.n = 0 \/ trimFed.a = a)]

\* updateSensorsCC3D with the Gyros or the Accels object read-only: it
\* returns 0 and leaves the caller's accels and gyros as they are on the
\* stack, unwritten
SenseReadOnly ==
    /\ ~halted
    /\ UNCHANGED ahrsVars
    /\ pc = "sense"
    /\ "Gyros" \in readOnly \/ "Accels" \in readOnly
    /\ \E garbage \in GarbageSpace : accels' = garbage.accels /\ gyros' = garbage.gyros
    /\ retval' = 0
    /\ pc' = "fuse"
    /\ UNCHANGED <<gainVars, cfgVars, estVars, trimVars, init, flightStatus, cbVars,
                   objVars, histVars>>

\* a timeout path that integrates the yaw bias from the gyros of the cycle
\* before, ahead of the queue being found empty
SenseTimeoutIntegrating ==
    /\ ~halted
    /\ UNCHANGED ahrsVars
    /\ pc = "sense"
    /\ "Gyros" \notin readOnly /\ "Accels" \notin readOnly
    /\ gyro_correct_int' =
           Vec3(gyro_correct_int[0], gyro_correct_int[1],
                FAdd(gyro_correct_int[2], FMul(FNeg(gyros[2]), yawBiasRate)))
    /\ retval' = -1
    /\ AlarmsSet("Error")
    /\ pc' = "mode"
    /\ UNCHANGED <<gainVars, cfgVars, q, filterParams_acc, filterParams_grot,
                   lastSysTime, dT,
                   trimVars, init, flightStatus, accels, gyros, cbVars, settings, pending,
                   attitudeActual, tick, halted, histVars, readOnly>>

\* no sample within SENSOR_PERIOD: updateSensorsCC3D returns -1 and the task
\* sets the alarm
SenseTimeout ==
    /\ ~halted
    /\ UNCHANGED ahrsVars
    /\ pc = "sense"
    /\ "Gyros" \notin readOnly /\ "Accels" \notin readOnly
    /\ retval' = -1
    /\ AlarmsSet("Error")
    /\ pc' = "mode"
    /\ UNCHANGED <<gainVars, cfgVars, estVars, trimVars, init, flightStatus, accels,
                   gyros, cbVars, settings, pending, attitudeActual, tick, halted,
                   histVars, readOnly>>

\* a sample received, conditioned and published
SenseSample(samples) ==
    /\ ~halted
    /\ UNCHANGED ahrsVars
    /\ pc = "sense"
    /\ "Gyros" \notin readOnly /\ "Accels" \notin readOnly
    /\ \E s \in samples : \E c \in {Conditioned(s)} :
           /\ accels' = c.accels
           /\ gyros' = c.gyros
           /\ gyro_correct_int' = c.gyro_correct_int
           /\ trimFed' = Fed(c.accels)
    /\ published' = published \cup {"Gyros", "Accels"}
    /\ retval' = 0
    /\ pc' = "fuse"
    /\ UNCHANGED <<gainVars, cfgVars, q, filterParams_acc, filterParams_grot,
                   lastSysTime, dT,
                   trimVars, init, flightStatus, cbVars, objVars, branch, fusion, lastLoad,
                   cycles, nSets>>

\* the statics updateAttitude reads
FusionState ==
    [q |-> q, gyro_correct_int |-> gyro_correct_int,
     accel_filter_enabled |-> accel_filter_enabled, accelKp |-> accelKp,
     accelKi |-> accelKi, filterParams_acc |-> filterParams_acc,
     filterParams_grot |-> filterParams_grot, lastSysTime |-> lastSysTime]

\* AttitudeActual read-only: updateAttitude is not called; the alarm is
\* cleared
FuseSkipped ==
    /\ ~halted
    /\ UNCHANGED ahrsVars
    /\ pc = "fuse"
    /\ "AttitudeActual" \in readOnly
    /\ fusion' = "skipped"
    /\ AlarmsClear
    /\ pc' = "mode"
    /\ UNCHANGED <<gainVars, cfgVars, estVars, trimVars, init, flightStatus, accels,
                   gyros, retval, cbVars, settings, pending, attitudeActual, tick, halted,
                   branch, published, trimFed, lastLoad, cycles, nSets, readOnly>>

\* updateAttitude, then the alarm is cleared. AttitudeActual is set on
\* the path that reaches the end of updateAttitude. The tick count it
\* reads is the one the cycle began with.
FuseUpdate ==
    /\ ~halted
    /\ UNCHANGED ahrsVars
    /\ pc = "fuse"
    /\ "AttitudeActual" \notin readOnly
    /\ \E r \in {UpdateAttitude(accels, gyros, FusionState, tick)} :
        /\ q' = r.q
        /\ gyro_correct_int' = r.gyro_correct_int
        /\ gyros' = r.gyros
        /\ filterParams_acc' = r.filterParams_acc
        /\ filterParams_grot' = r.filterParams_grot
        /\ lastSysTime' = r.lastSysTime
        /\ dT' = r.dT
        /\ fusion' = r.exit
        /\ attitudeActual' = IF r.exit = "done" THEN r.q ELSE attitudeActual
        /\ published' = IF r.exit = "done" THEN published \cup {"AttitudeActual"}
                        ELSE published
    /\ AlarmsClear
    /\ pc' = "mode"
    /\ UNCHANGED <<gainVars, cfgVars, trimVars, init, flightStatus, accels, retval, cbVars,
                   settings, pending, tick, halted, branch, trimFed, lastLoad, cycles,
                   nSets, readOnly>>

AttitudeTask(maxCycles, armedStates, clock, samples) ==
    \/ settingsUpdatedCb("task")
    \/ TaskMode(maxCycles, armedStates, clock)
    \/ SenseReadOnly
    \/ SenseTimeout
    \/ SenseSample(samples)
    \/ FuseSkipped
    \/ FuseUpdate

-----------------------------------------------------------------------------
(* The ground station and the event dispatcher                             *)

\* the ground station writes a tuning to AttitudeSettings
GcsSet(maxSets) ==
    /\ ~halted
    /\ UNCHANGED ahrsVars
    /\ nSets < maxSets
    /\ \E s \in SettingsSpace :
        /\ s # settings
        /\ settings' = s
    /\ pending' = pending + 1
    /\ nSets' = nSets + 1
    /\ UNCHANGED <<gainVars, cfgVars, estVars, trimVars, taskVars, cbVars, attitudeActual,
                   alarm, tick, halted, branch, fusion, published, trimFed, lastLoad,
                   cycles, readOnly>>

\* the ground station starts or loads a trim flight
GcsTrim(maxSets) ==
    /\ ~halted
    /\ UNCHANGED ahrsVars
    /\ nSets < maxSets
    /\ \E cmd \in TrimCommands : settings' = [settings EXCEPT !.TrimFlight = cmd]
    /\ pending' = pending + 1
    /\ nSets' = nSets + 1
    /\ UNCHANGED <<gainVars, cfgVars, estVars, trimVars, taskVars, cbVars, attitudeActual,
                   alarm, tick, halted, branch, fusion, published, trimFed, lastLoad,
                   cycles, readOnly>>

-----------------------------------------------------------------------------
(* ahrscommsTask and the update callbacks                                  *)

\* what the steps of ahrs_comms.c leave alone of the state of attitude.c
attitudeOnly ==
    <<gainVars, cfgVars, estVars, trimVars, taskVars, cbVars, settings, pending, alarm,
      tick, halted, readOnly, histVars>>

\* a request may fail while failures are followed
MayFail == nFailures < MaxFailures

\* a top of the main loop that leaves the alarm as it is
ResyncQuiet ==
    /\ ahrsAlarm' = ahrsAlarm
    /\ AHRSKnowsHome' = FALSE
    /\ apc' = "resync"

\* a top of the main loop that leaves AHRSKnowsHome as it is
ResyncKnowingHome ==
    /\ ahrsAlarm' = "Critical"
    /\ AHRSKnowsHome' = AHRSKnowsHome
    /\ apc' = "resync"

\* the top of the main loop: the alarm is set, home is forgotten and
\* PIOS_OPAHRS_resync is called
Resync ==
    /\ ahrsAlarm' = "Critical"
    /\ AHRSKnowsHome' = FALSE
    /\ apc' = "resync"

\* the home step: magnetic north is loaded and sent when HomeLocation was
\* updated or the AHRS does not know home, else the iteration ends in the
\* delay
HomeStep ==
    IF HomeLocationIsUpdatedFlag \/ ~AHRSKnowsHome
    THEN apc' = "home" /\ req' = load_magnetic_north
    ELSE apc' = "delay" /\ req' = req

\* the position step, and on from there
PositionStep ==
    IF PositionActualIsUpdatedFlag
    THEN apc' = "position" /\ req' = load_position_actual
    ELSE HomeStep

\* the altitude step, and on from there
BaroStep ==
    IF BaroAltitudeIsUpdatedFlag
    THEN apc' = "baro" /\ req' = load_baro_altitude
    ELSE PositionStep

\* PIOS_OPAHRS_resync returns: GetSerial is called, or the task delays
ResyncReturns ==
    /\ apc = "resync"
    /\ \E r \in OpahrsResults :
        IF r = "OPAHRS_RESULT_OK"
        THEN apc' = "serial" /\ nFailures' = nFailures
        ELSE MayFail /\ apc' = "resyncDelay" /\ nFailures' = nFailures + 1
    /\ UNCHANGED <<ahrsFlags, ahrsErrors, result, req, AHRSKnowsHome, ahrsObjs, ahrsOut,
                   updated, nUpdates, attitudeActual, attitudeOnly>>

\* vTaskDelay(100 / portTICK_RATE_MS) returns: resync is called again
ResyncDelay ==
    /\ apc = "resyncDelay"
    /\ apc' = "resync"
    /\ UNCHANGED <<ahrsFlags, ahrsErrors, result, req, AHRSKnowsHome, ahrsObjs, ahrsOut,
                   ahrsHist, attitudeActual, attitudeOnly>>

\* update_ahrs_status
update_ahrs_status(serial) ==
    ahrsStatus' =
        [SerialNumber |-> serial,
         CommErrors |-> <<attitude_errors, attituderaw_errors, position_errors,
                          home_errors, altitude_errors>>]

\* PIOS_OPAHRS_GetSerial returns: in sync, the alarm is cleared and
\* GetAttitude is called; or back to the top
SerialReturns ==
    /\ apc = "serial"
    /\ \E r \in OpahrsResults, serial \in AhrsSerials :
        IF r = "OPAHRS_RESULT_OK"
        THEN /\ update_ahrs_status(serial)
             /\ ahrsAlarm' = "Clear"
             /\ apc' = "attitude"
             /\ UNCHANGED <<AHRSKnowsHome, nFailures>>
        ELSE /\ MayFail
             /\ Resync
             /\ nFailures' = nFailures + 1
             /\ UNCHANGED ahrsStatus
    /\ UNCHANGED <<ahrsFlags, ahrsErrors, result, req, ahrsObjs, attitudeRaw, led2, ahrs,
                   updated, nUpdates, attitudeActual, attitudeOnly>>

\* PIOS_OPAHRS_GetAttitude returns
AttitudeReturns ==
    /\ apc = "attitude"
    /\ \E r \in OpahrsResults, rsp \in AhrsAttitudes :
        /\ result' = r
        /\ IF r = "OPAHRS_RESULT_OK"
           THEN /\ attitudeActual' = rsp
                /\ apc' = "raw"
                /\ UNCHANGED <<attitude_errors, ahrsAlarm, AHRSKnowsHome, nFailures>>
           ELSE /\ MayFail
                /\ attitude_errors' = Inc16(attitude_errors)
                /\ Resync
                /\ nFailures' = nFailures + 1
                /\ UNCHANGED attitudeActual
    /\ UNCHANGED <<ahrsFlags, attituderaw_errors, position_errors, home_errors,
                   altitude_errors, req, ahrsObjs, attitudeRaw, ahrsStatus, led2, ahrs,
                   updated, nUpdates, attitudeOnly>>

\* PIOS_OPAHRS_GetAttitudeRaw returns
RawReturns ==
    /\ apc = "raw"
    /\ \E r \in OpahrsResults, rsp \in AhrsRaws :
        /\ result' = r
        /\ IF r = "OPAHRS_RESULT_OK"
           THEN /\ attitudeRaw' = rsp
                /\ BaroStep
                /\ UNCHANGED <<attituderaw_errors, ahrsAlarm, AHRSKnowsHome, nFailures>>
           ELSE /\ MayFail
                /\ attituderaw_errors' = Inc16(attituderaw_errors)
                /\ Resync
                /\ nFailures' = nFailures + 1
                /\ UNCHANGED <<attitudeRaw, req>>
    /\ UNCHANGED <<ahrsFlags, attitude_errors, position_errors, home_errors,
                   altitude_errors, ahrsObjs, ahrsStatus, led2, ahrs, updated, nUpdates,
                   attitudeActual, attitudeOnly>>

\* PIOS_OPAHRS_SetBaroAltitude returns
BaroReturns ==
    /\ apc = "baro"
    /\ \E r \in OpahrsResults :
        /\ result' = r
        /\ IF r = "OPAHRS_RESULT_OK"
           THEN /\ ahrs' = [ahrs EXCEPT !.altitude = req]
                /\ BaroAltitudeIsUpdatedFlag' = FALSE
                /\ PositionStep
                /\ UNCHANGED <<altitude_errors, ahrsAlarm, AHRSKnowsHome, nFailures>>
           ELSE /\ MayFail
                /\ altitude_errors' = Inc16(altitude_errors)
                /\ Resync
                /\ nFailures' = nFailures + 1
                /\ UNCHANGED <<ahrs, BaroAltitudeIsUpdatedFlag, req>>
    /\ UNCHANGED <<PositionActualIsUpdatedFlag, HomeLocationIsUpdatedFlag, attitude_errors,
                   attituderaw_errors, position_errors, home_errors, ahrsObjs, attitudeRaw,
                   ahrsStatus, led2, updated, nUpdates, attitudeActual, attitudeOnly>>

\* PIOS_OPAHRS_SetPositionActual returns
PositionReturns ==
    /\ apc = "position"
    /\ \E r \in OpahrsResults :
        /\ result' = r
        /\ IF r = "OPAHRS_RESULT_OK"
           THEN /\ ahrs' = [ahrs EXCEPT !.gps = req]
                /\ PositionActualIsUpdatedFlag' = FALSE
                /\ HomeStep
                /\ UNCHANGED <<position_errors, ahrsAlarm, AHRSKnowsHome, nFailures>>
           ELSE /\ MayFail
                /\ position_errors' = Inc16(position_errors)
                /\ Resync
                /\ nFailures' = nFailures + 1
                /\ UNCHANGED <<ahrs, PositionActualIsUpdatedFlag, req>>
    /\ UNCHANGED <<BaroAltitudeIsUpdatedFlag, HomeLocationIsUpdatedFlag, attitude_errors,
                   attituderaw_errors, home_errors, altitude_errors, ahrsObjs, attitudeRaw,
                   ahrsStatus, led2, updated, nUpdates, attitudeActual, attitudeOnly>>

\* PIOS_OPAHRS_SetMagNorth returns
HomeReturns ==
    /\ apc = "home"
    /\ \E r \in OpahrsResults :
        /\ result' = r
        /\ IF r = "OPAHRS_RESULT_OK"
           THEN /\ ahrs' = [ahrs EXCEPT !.north = req]
                /\ HomeLocationIsUpdatedFlag' = FALSE
                /\ AHRSKnowsHome' = TRUE
                /\ apc' = "delay"
                /\ UNCHANGED <<home_errors, ahrsAlarm, led2, nFailures>>
           ELSE /\ MayFail
                /\ led2' = "off"
                /\ home_errors' = Inc16(home_errors)
                /\ Resync
                /\ nFailures' = nFailures + 1
                /\ UNCHANGED <<ahrs, HomeLocationIsUpdatedFlag>>
    /\ UNCHANGED <<BaroAltitudeIsUpdatedFlag, PositionActualIsUpdatedFlag, attitude_errors,
                   attituderaw_errors, position_errors, altitude_errors, req, ahrsObjs,
                   attitudeRaw, ahrsStatus, updated, nUpdates, attitudeActual,
                   attitudeOnly>>

\* vTaskDelay(settings.UpdatePeriod / portTICK_RATE_MS) returns: the next
\* iteration gets the settings and calls GetAttitude
DelayReturns ==
    /\ apc = "delay"
    /\ apc' = "attitude"
    /\ UNCHANGED <<ahrsFlags, ahrsErrors, result, req, AHRSKnowsHome, ahrsObjs, ahrsOut,
                   ahrsHist, attitudeActual, attitudeOnly>>

ahrscommsTask ==
    \/ ResyncReturns
    \/ ResyncDelay
    \/ SerialReturns
    \/ AttitudeReturns
    \/ RawReturns
    \/ BaroReturns
    \/ PositionReturns
    \/ HomeReturns
    \/ DelayReturns

\* an object is set and its callback run
Updated(object) ==
    /\ nUpdates < MaxUpdates
    /\ nUpdates' = nUpdates + 1
    /\ updated' = updated \cup {object}
    /\ UNCHANGED <<ahrsErrors, ahrsTaskVars, ahrsOut, nFailures, attitudeActual,
                   attitudeOnly>>

\* BaroAltitudeSet by the altitude module, then BaroAltitudeUpdatedCb
BaroAltitudeUpdatedCb ==
    /\ Updated("BaroAltitude")
    /\ \E data \in BaroSpace \ {baroAltitude} : baroAltitude' = data
    /\ BaroAltitudeIsUpdatedFlag' = TRUE
    /\ UNCHANGED <<PositionActualIsUpdatedFlag, HomeLocationIsUpdatedFlag, positionActual,
                   homeLocation>>

\* PositionActualSet by the GPS module, then PositionActualUpdatedCb
PositionActualUpdatedCb ==
    /\ Updated("PositionActual")
    /\ \E data \in PositionSpace \ {positionActual} : positionActual' = data
    /\ PositionActualIsUpdatedFlag' = TRUE
    /\ UNCHANGED <<BaroAltitudeIsUpdatedFlag, HomeLocationIsUpdatedFlag, baroAltitude,
                   homeLocation>>

\* HomeLocationSet by the ground station, then HomeLocationUpdatedCb
HomeLocationUpdatedCb ==
    /\ Updated("HomeLocation")
    /\ \E data \in HomeSpace \ {homeLocation} : homeLocation' = data
    /\ HomeLocationIsUpdatedFlag' = TRUE
    /\ UNCHANGED <<BaroAltitudeIsUpdatedFlag, PositionActualIsUpdatedFlag, baroAltitude,
                   positionActual>>

\* flight with changes of the tuning
Next ==
    \/ AttitudeTask(MaxCycles, ArmedStates, FlightClock, SampleSpace)
    \/ settingsUpdatedCb("event")
    \/ GcsSet(MaxSets)

Spec == Init /\ [][Next]_vars

\* a trim flight
NextTrim ==
    \/ AttitudeTask(MaxTrimCycles, TrimArmedStates, FlightClock, SampleSpace)
    \/ settingsUpdatedCb("event")
    \/ GcsTrim(MaxTrims)

SpecTrim == Init /\ [][NextTrim]_vars

\* a long flight
NextWrap ==
    \/ AttitudeTask(MaxWrapCycles, ArmedStates, WrappingClock, SamplesAtRest)

SpecWrap == Init /\ [][NextWrap]_vars

\* the AHRS link beside the modules that update the three objects
NextAhrs ==
    \/ ahrscommsTask
    \/ BaroAltitudeUpdatedCb
    \/ PositionActualUpdatedCb
    \/ HomeLocationUpdatedCb

SpecAhrs == Init /\ [][NextAhrs]_vars

-----------------------------------------------------------------------------
(* Properties                                                              *)

\* the task begins a cycle
CycleBegins == pc = "mode" /\ pc' = "sense"

\* the task goes back to the top of the loop from the sensor read
ReadFails == pc = "sense" /\ pc' = "mode"

\* updateSensorsCC3D conditions a sample
ConditioningStep == pc = "sense" /\ pc' = "fuse" /\ "Gyros" \in published'

\* the task calls updateAttitude
Invocation == pc = "fuse" /\ pc' = "mode" /\ fusion' \in {"done", "accel_mag", "grot_mag"}

\* no change of the settings is waiting for settingsUpdatedCb or in its hands
Quiet == pending = 0 /\ cbpc["event"] = "idle"

\* the steps of a cycle up to a failed read leave the attitude state alone
TimeoutFrame ==
    CycleBegins \/ ReadFails
        => /\ q' = q
           /\ gyro_correct_int' = gyro_correct_int
           /\ attitudeActual' = attitudeActual
           /\ (ReadFails => retval' # 0)

\* C1: in a cycle whose sensor read times out (updateSensorsCC3D returns
\* non-zero) the task raises the alarm to Error, does not call
\* updateAttitude, publishes no object, and its steps (the mode step and the
\* failed read) leave q, gyro_correct_int and AttitudeActual as they were.
C1_TimeoutCycle ==
    /\ [](pc = "mode" /\ retval # 0 => alarm = "Error" /\ fusion = "none" /\ published = {})
    /\ [][TimeoutFrame]_vars

\* a second cycle timed out after the first one moved q
C1_Witness ==
    /\ pc = "mode" /\ cycles = 2 /\ retval = -1
    /\ alarm = "Error" /\ fusion = "none" /\ q # IdentityQuat

\* a quaternion that is NaN or shorter than 1e-3
Degenerate(qq) == (\E i \in 0..3 : IsNaN(qq[i])) \/ FLt(QuatMag(qq), SMALL_MAG)

\* C2: if q is all-zero, shorter than 1e-3 or NaN when updateAttitude is
\* called, q is the identity when it returns, whatever the filter flag, the
\* filter history and the accels and gyros are.
C2_DegenerateRecovery == [][Invocation /\ Degenerate(q) => q' = IdentityQuat]_vars

\* a quaternion of norm 1 to within 1e-4 with q[0] >= 0
CanonicalQuat(qq) ==
    /\ \A i \in 0..3 : ~IsNaN(qq[i])
    /\ Abs(QuatMag(qq) - FX) <= FX \div 10000
    /\ qq[0] >= 0

\* C3: after every call of updateAttitude, on every path out of it, q is
\* canonical: its norm is within 1e-4 of 1 and q[0] >= 0.
C3_CanonicalAfterFusion == [][Invocation => CanonicalQuat(q')]_vars

\* the bias a trim flight over samples of accel a is to give
TrimExpected(a) == Vec3(a[0], a[1], FAdd(a[2], GRAV_OVER_SCALE))

\* the integers v within one count of the floats e
WithinOneCount(v, e) == \A i \in Axes : Abs(F(v[i]) - e[i]) <= FX

\* C4: Start, then N >= 1 reads that each deliver the conditioned accel
\* (ax, ay, az), then Load: the Load writes AccelBias =
\* (ax, ay, az + GRAV / ACCEL_SCALE) to the settings object.
C4_TrimRoundTrip ==
    lastLoad.done /\ lastLoad.fed.started /\ lastLoad.fed.n >= 1 /\ lastLoad.fed.same
        => ~lastLoad.fault /\ WithinOneCount(lastLoad.after, TrimExpected(lastLoad.fed.a))

\* C5: a Load that finds no sample counted (no Start before it, or no read
\* since the Start) divides nothing by zero and leaves the AccelBias of the
\* settings object as it was.
C5_LoadWithoutSamples ==
    lastLoad.done /\ lastLoad.samples = 0 /\ (~lastLoad.fed.started \/ lastLoad.fed.n = 0)
        => ~lastLoad.fault /\ lastLoad.after = lastLoad.before

\* the gains of the task are the ones forced in the warm-up window
WarmupGains(step) ==
    /\ step = "conditioning" => yawBiasRate = YAW_BIAS_RATE_INIT
    /\ step = "fusion" => /\ accelKp = KP_INIT /\ accelKi = KI_INIT
                          /\ ~accel_filter_enabled

\* C6: in a cycle of the warm-up window the gains the conditioning and the
\* fusion use are accelKp = 1, accelKi = 0.9, yawBiasRate = 0.23 with the
\* filter off, whatever notifications of a settings change arrive meanwhile.
C6_WarmupGains ==
    [][(branch = "warmup" /\ ConditioningStep => WarmupGains("conditioning"))
       /\ (branch = "warmup" /\ Invocation => WarmupGains("fusion"))]_vars

\* the gains of the task are the ones of the settings object, the filter on
ConfiguredGains(step) ==
    /\ step = "conditioning" => yawBiasRate = settings.YawBiasRate
    /\ step = "fusion" => /\ accelKp = settings.AccelKp /\ accelKi = settings.AccelKi
                          /\ accel_filter_enabled

\* C7 as stated: in a cycle with neither the warm-up nor the arm-zero
\* condition the conditioning and the fusion use the accelKp, accelKi and
\* yawBiasRate the AttitudeSettings object holds at that moment, with the
\* filter on.
C7_ConfiguredGains ==
    [][(branch \in {"reload", "normal"} /\ ConditioningStep => ConfiguredGains("conditioning"))
       /\ (branch \in {"reload", "normal"} /\ Invocation => ConfiguredGains("fusion"))]_vars

\* C7 amended: the same of the steps taken while no change of the settings
\* is waiting for its notification to be handled.
C7_ConfiguredGainsWhenQuiet ==
    [][(branch \in {"reload", "normal"} /\ Quiet /\ ConditioningStep
            => ConfiguredGains("conditioning"))
       /\ (branch \in {"reload", "normal"} /\ Quiet /\ Invocation
            => ConfiguredGains("fusion"))]_vars

\* a cycle that reloaded nothing ran updateAttitude on a tuning the ground
\* station had written and the callback had applied
C7_Witness ==
    /\ pc = "mode" /\ branch = "normal" /\ fusion \in {"done", "accel_mag", "grot_mag"}
    /\ Quiet /\ nSets = 1 /\ settings = TunedSettings
    /\ accelKp = TunedSettings.AccelKp /\ accel_filter_enabled

\* C8 as stated: a raised alarm is cleared only by a cycle whose fusion ran
\* to its end; a cycle whose fusion was skipped or given up leaves it.
C8_ClearedByFusionOnly == [][alarm = "Error" /\ alarm' = "Clear" => fusion' = "done"]_vars

\* C8 amended: at the end of a cycle the alarm is Error if the sensor read
\* of the cycle failed and Clear if it returned 0, whether updateAttitude
\* ran to its end, gave up or was not called.
C8_AlarmFollowsRead == pc = "mode" /\ cycles >= 1 => (alarm = "Error" <=> retval # 0)

\* a cycle whose fusion was skipped or given up ended with the alarm clear
C8_Witness ==
    /\ pc = "mode" /\ cycles = 2 /\ retval = 0 /\ alarm = "Clear"
    /\ fusion \in {"skipped", "accel_mag", "grot_mag"}

\* the parameters settingsUpdatedCb alone writes, as it derives them from
\* the snapshot s
Derived(s) ==
    [zero_during_arming |-> s.ZeroDuringArming, bias_correct_gyro |-> s.BiasCorrectGyro,
     accelbias |-> s.AccelBias,
     rotate |-> IF s.BoardRotation = Vec3(0, 0, 0) THEN 0 ELSE 1,
     R |-> BoardRotationMatrix(s.BoardRotation)]

\* the same as the task finds them
Running ==
    [zero_during_arming |-> zero_during_arming, bias_correct_gyro |-> bias_correct_gyro,
     accelbias |-> accelbias, rotate |-> rotate, R |-> R]

\* C9: a change of the settings is applied atomically: the parameters the
\* task reads when it conditions a sample all come from one snapshot of the
\* settings, never some from the old one and some from the new one.
C9_AtomicSettings ==
    [][ConditioningStep => \E s \in SettingsSpace : Running = Derived(s)]_vars

\* C10: nothing stops the task for good, a Load with no samples included:
\* the processor never ends in the fault handler.
C10_TaskNeverStopped == ~halted

\* run c of settingsUpdatedCb returns
CbReturns(c) == cbpc[c] = "bias" /\ cbpc'[c] = "idle"

\* what a run that returns leaves of the trim flight, for the TrimFlight of
\* the snapshot it read
TrimProtocol(c) ==
    /\ trim_requested' <=> attitudeSettings[c].TrimFlight = "START"
    /\ attitudeSettings[c].TrimFlight = "START"
           => trim_accels' = Vec3(0, 0, 0) /\ trim_samples' = 0

\* C11: when settingsUpdatedCb has processed a snapshot, accumulation is
\* armed if and only if the TrimFlight of the snapshot was Start; Start also
\* zeroes the three sums and the count; Load and any other value disarm.
C11_TrimProtocol == [][\A c \in Contexts : CbReturns(c) => TrimProtocol(c)]_vars

\* a Load was processed, and after it a Start, which armed the accumulation
C11_Witness ==
    /\ lastLoad.done /\ ~lastLoad.fault
    /\ trim_requested /\ trim_samples = 0 /\ cbpc["event"] = "idle"

\* the sums of the trim flight with the sample a added
Accumulated(a) ==
    Vec3(trim_accels[0] + ToInt(a[0]), trim_accels[1] + ToInt(a[1]),
         trim_accels[2] + ToInt(a[2]))

\* C12: while accumulation is armed and the count is below
\* MAX_TRIM_FLIGHT_SAMPLES, a successful conditioning adds the conditioned
\* accel of the cycle to the sums and one to the count.
C12_TrimAccumulates ==
    [][ConditioningStep /\ trim_requested /\ trim_samples < MAX_TRIM_FLIGHT_SAMPLES
        => trim_samples' = trim_samples + 1 /\ trim_accels' = Accumulated(accels')]_vars

\* the gains forced for the acquisition of the gyro bias are in effect
ForcedGains ==
    /\ accelKp = KP_INIT /\ accelKi = KI_INIT /\ yawBiasRate = YAW_BIAS_RATE_INIT
    /\ ~accel_filter_enabled

\* C13: the mode scheduler starts in WarmUp: the first cycle after boot
\* applies the forced gains with the filter off, so that the tuned gains and
\* the filter are not in effect before a warm-up has occurred.
C13_WarmUpFirst == [][CycleBegins /\ cycles = 0 => ForcedGains']_vars

\* a step of settingsUpdatedCb, in either context
CallbackStep == \E c \in Contexts : cbpc'[c] # cbpc[c]

\* C14: the task is the only writer of q, of gyro_correct_int and of the
\* filter states: no step of settingsUpdatedCb changes any of them,
\* whatever the snapshot and its TrimFlight.
C14_CallbackFrame ==
    [][CallbackStep => UNCHANGED <<q, gyro_correct_int, filterParams_acc, filterParams_grot>>]_vars

\* no notification is waiting and no run of settingsUpdatedCb is under way
ChainEnded == pending = 0 /\ pc # "boot" /\ \A c \in Contexts : cbpc[c] = "idle"

\* the dispatcher returns from the last notification queued
ChainEnds == CbReturns("event") /\ pending' = 0

\* a run that returns from a Load has written the bias and TrimFlight =
\* NORMAL back and queued one notification; a run that returns from any
\* other TrimFlight has computed and written nothing
LoadOnce(c) ==
    IF attitudeSettings[c].TrimFlight = "LOAD"
    THEN /\ lastLoad'.done /\ settings'.AccelBias = lastLoad'.after
         /\ settings'.TrimFlight = "NORMAL"
         /\ pending' = pending + 1
    ELSE UNCHANGED <<lastLoad, settings, pending>>

\* C15: a Load is executed once: it writes the settings back with
\* TrimFlight = NORMAL, the notification of that write finds NORMAL,
\* computes nothing and notifies nobody, and when the chain has ended the
\* running accelbias is the AccelBias the Load wrote.
C15_LoadOnce ==
    [][/\ \A c \in Contexts : CbReturns(c) => LoadOnce(c)
       /\ ChainEnds /\ lastLoad'.done /\ ~lastLoad'.fault => accelbias' = lastLoad'.after]_vars

\* a Load returned, its notification was handled, and the bias is running
C15_Witness ==
    /\ ChainEnded /\ lastLoad.done /\ ~lastLoad.fault
    /\ settings.TrimFlight = "NORMAL" /\ accelbias = Vec3(0, 0, 250)

\* the tick count t lies in the warm-up window
InWarmup(t) == WARMUP_FROM < t /\ t < WARMUP_TO

\* the arm-zero condition as the cycle that begins finds it
ArmZero == zero_during_arming /\ flightStatus' = "ARMING"

\* the gains the mode step leaves are the ones of AttitudeSettings, the
\* filter on
TunedGains ==
    /\ accelKp = settings.AccelKp /\ accelKi = settings.AccelKi
    /\ yawBiasRate = settings.YawBiasRate /\ accel_filter_enabled

\* C16: a cycle outside the warm-up window that finds zero_during_arming
\* set and the flight status Arming forces accelKp = 1, accelKi = 0.9,
\* yawBiasRate = 0.23 and the filter off, whether or not the tuned gains had
\* been loaded before; the first later cycle that finds neither condition
\* (init is still 0) reloads the tuned gains and enables the filter.
C16_ArmZero ==
    [][/\ CycleBegins /\ ~InWarmup(tick') /\ ArmZero => ForcedGains' /\ init' = 0
       /\ CycleBegins /\ ~InWarmup(tick') /\ ~ArmZero /\ init = 0
              => TunedGains' /\ init' = 1]_vars

\* the filter has run on the tuned gains, and the cycle that follows finds
\* the craft arming and forces the gains
C16_Witness ==
    /\ pc = "sense" /\ cycles = 2 /\ branch = "armzero" /\ flightStatus = "ARMING"
    /\ filterParams_acc # ZeroFilters /\ ForcedGains /\ init = 0

\* the magnitude of the accel vector updateAttitude is about to test,
\* filtered or bypassed
AccelMagnitude == VecMag(FilteredVec(accel_filter_enabled, accels, filterParams_acc))

\* the magnitude of the predicted gravity vector, filtered or bypassed
GravityMagnitude == VecMag(FilteredVec(accel_filter_enabled, Grot(q), filterParams_grot))

\* x is below 1e-3
Tiny(x) == FLt(x, FX \div 1000)

YawIntegrated(gz) == FAdd(gyro_correct_int[2], FMul(FNeg(gz), yawBiasRate))

\* C18: every conditioning of a received sample changes the yaw bias
\* integral gyro_correct_int[2] by exactly -gz * yawBiasRate, gz being the z
\* gyro it publishes, whether bias_correct_gyro is set or not
C18_YawIntegral == [][ConditioningStep => gyro_correct_int'[2] = YawIntegrated(gyros'[2])]_vars

\* a sample conditioned without bias correction has moved the yaw integral
\* away from the bias the settings gave it
C18_Witness == /\ pc = "fuse" /\ "Gyros" \in published /\ ~bias_correct_gyro
               /\ Quiet /\ gyros[2] # 0 /\ yawBiasRate # 0
               /\ gyro_correct_int[2] # FDiv(F(settings.GyroBias[2]), F(100))

\* updateSensorsCC3D returns, whichever way
SensorStep == pc = "sense" /\ pc' # "sense"

AxisSplit ==
    /\ Invocation => gyro_correct_int'[2] = gyro_correct_int[2]
    /\ SensorStep => (gyro_correct_int'[0] = gyro_correct_int[0]
                       /\ gyro_correct_int'[1] = gyro_correct_int[1])

\* C19: the gyro bias integral is split by axis: updateAttitude never
\* changes gyro_correct_int[2], updateSensorsCC3D never changes
\* gyro_correct_int[0] and gyro_correct_int[1]
C19_AxisSplit == [][AxisSplit]_vars

\* with the bias of the settings zero, a fusion has moved the x integral
\* and a conditioning the z integral
C19_Witness == /\ pc = "mode" /\ fusion = "done" /\ nSets = 0
               /\ gyro_correct_int[0] # 0 /\ gyro_correct_int[2] # 0

\* the ticks from lastSysTime to the tick count of the cycle, the counter
\* having wrapped when the count is behind
Elapsed ==
    IF tick >= lastSysTime THEN tick - lastSysTime
    ELSE tick + (portMAX_DELAY - lastSysTime) + 1

TimeStep ==
    /\ dT' > 0
    /\ dT' = IF Elapsed = 0 THEN DT_MIN ELSE Elapsed * (FX \div 1000)
    /\ lastSysTime' = tick

\* C20: in every invocation of updateAttitude, the first one and those
\* across a wrap-around of the tick counter included, dT is positive: the
\* ticks elapsed since the invocation before (modulo the width of the
\* counter) in seconds, or 0.001 s when none elapsed; lastSysTime becomes
\* the tick count of the invocation
C20_TimeStep == [][Invocation => TimeStep]_vars

\* an invocation at tick 4 after one at tick 65530: ten ticks
C20_Witness == /\ pc = "mode" /\ cycles = 2 /\ fusion = "done"
               /\ lastSysTime = 4 /\ dT = 10 * (FX \div 1000)

\* what the two calls of apply_accel_filter in updateAttitude return is
\* what they were given
Bypassed ==
    /\ FilteredVec(accel_filter_enabled, accels, filterParams_acc) = accels
    /\ FilteredVec(accel_filter_enabled, Grot(q), filterParams_grot) = Grot(q)

FilterBypass ==
    /\ Invocation => Bypassed
    /\ UNCHANGED <<filterParams_acc, filterParams_grot>>

\* C21: while accel_filter_enabled is false, apply_accel_filter returns its
\* input and no step, the invocations of updateAttitude included, changes
\* the six filter histories: a warm-up or arm-zero period leaves them as
\* they were
C21_FilterBypass == [][~accel_filter_enabled => FilterBypass]_vars

\* a fusion with forced gains has run over histories an earlier, filtered
\* fusion left
C21_Witness == /\ pc = "mode" /\ cycles = 2 /\ fusion = "done"
               /\ branch \in {"warmup", "armzero"} /\ ~accel_filter_enabled
               /\ filterParams_acc # ZeroFilters /\ filterParams_grot # ZeroFilters

\* C22: updateAttitude is only invoked with accels and gyros that
\* updateSensorsCC3D wrote in the same cycle: whenever updateSensorsCC3D
\* returns 0 it has filled both structures, with the Gyros or Accels object
\* read-only too
C22_SensorsWritten ==
    [][Invocation => "Gyros" \in published /\ "Accels" \in published]_vars

\* the task is in the in-sync loop: in one of its requests or in its delay
InSync == apc \in {"attitude", "raw", "baro", "position", "home", "delay"}

\* a request returns with a failure
RequestFails ==
    /\ apc \in {"resync", "serial", "attitude", "raw", "baro", "position", "home"}
    /\ apc' \in {"resync", "resyncDelay"}

AlarmFollowsSync ==
    /\ RequestFails => ahrsAlarm' = "Critical"
    /\ ~InSync' => ahrsAlarm' = "Critical"
    /\ ahrsAlarm' = "Clear" => InSync'

\* C23: the AHRSCOMMS alarm is Clear only while ahrscommsTask is in the
\* in-sync loop; a failed request leaves the alarm Critical before the
\* next request is made, and it is Critical throughout resync and GetSerial
C23_AlarmFollowsSync == [][AlarmFollowsSync]_vars

\* the link was in sync, a transmit of the altitude failed and the task is
\* in resync with the alarm set
C23_Witness == /\ apc = "resync" /\ ahrsAlarm = "Critical" /\ altitude_errors = 1
               /\ ahrsStatus.SerialNumber # "none"

\* an iteration of the in-sync loop comes to the home step
ReachesHomeStep == apc \in {"raw", "baro", "position"} /\ apc' \in {"home", "delay"}

HomeProtocol ==
    /\ apc = "serial" /\ apc' = "attitude" => ~AHRSKnowsHome'
    /\ ReachesHomeStep /\ ~AHRSKnowsHome => apc' = "home" /\ req' = load_magnetic_north
    /\ ~AHRSKnowsHome /\ AHRSKnowsHome' =>
           apc = "home" /\ result' = "OPAHRS_RESULT_OK" /\ ahrs'.north = req
    /\ apc' = "delay" => AHRSKnowsHome'

\* C24: AHRSKnowsHome is false when an in-sync session begins, magnetic
\* north is sent by the first iteration that comes to the home step,
\* AHRSKnowsHome becomes true only when PIOS_OPAHRS_SetMagNorth returned OK,
\* and no iteration reaches the delay while AHRSKnowsHome is false
C24_HomeProtocol == [][HomeProtocol]_vars

\* a second session, after a failed GetAttitude, has sent magnetic north
\* again although HomeLocation was never updated
C24_Witness == /\ apc = "delay" /\ AHRSKnowsHome /\ attitude_errors = 1
               /\ "HomeLocation" \notin updated /\ ahrs.north = load_magnetic_north

\* C25: no update of BaroAltitude, PositionActual or HomeLocation is lost:
\* once an object was updated, its flag is clear only when what the AHRS
\* has received is what the object holds
C25_NoUpdateLost ==
    /\ "BaroAltitude" \in updated /\ ~BaroAltitudeIsUpdatedFlag
           => ahrs.altitude = load_baro_altitude
    /\ "PositionActual" \in updated /\ ~PositionActualIsUpdatedFlag
           => ahrs.gps = load_position_actual
    /\ "HomeLocation" \in updated /\ ~HomeLocationIsUpdatedFlag
           => ahrs.north = load_magnetic_north

=============================================================================
